---- MODULE Spec2Model ----
(***************************************************************************)
(* A model of sway_monitor_manager.py: the menu loop, the workspace file,  *)
(* the compositor's outputs as swaymsg reports and changes them, and the   *)
(* handlers that reconcile a saved workspace against the live outputs.     *)
(*                                                                         *)
(* Text that the program processes (make/model/serial, workspace names,    *)
(* position input) is a sequence of one-character strings, so that strip   *)
(* and split are computed.  Text it only passes on (output names,          *)
(* transforms) is a plain string.  A dict is a record; a key that may be   *)
(* missing is a field that may be missing from the record's domain.        *)
(***************************************************************************)
EXTENDS Integers, Sequences, FiniteSets, TLC

VARIABLES
    pc,        \* where the program is: "menu", "wsmenu", "exited", "crashed"
    file,      \* the workspace file: [exists, valid, data]
    outputs,   \* the compositor's outputs, in the order get_outputs lists them
    budget,    \* handler invocations left in this run of the model
    issued,    \* the swaymsg output commands the last handler ran, in order
    msg,       \* the messages the last handler printed
    last,      \* the last handler's inputs: what it loaded, queried and selected
    captured   \* the last workspace create_current_as_workspace saved

vars == <<pc, file, outputs, budget, issued, msg, last, captured>>

-----------------------------------------------------------------------------
(* Bounds of the model. *)

MaxOutputs == 2      \* live outputs
MaxProfiles == 2     \* monitor entries of a workspace present in the initial file
MaxFailAt == 2       \* a failing swaymsg command is the 1st .. MaxFailAt-th of a handler
MaxOps == 3          \* handler invocations of the menu loop in one behaviour

-----------------------------------------------------------------------------
(* Python values. *)

None == "None"

Get(d, k, default) == IF k \in DOMAIN d THEN d[k] ELSE default

RECURSIVE LStrip(_)
LStrip(s) == IF s = <<>> THEN s ELSE IF Head(s) = " " THEN LStrip(Tail(s)) ELSE s

RECURSIVE RStrip(_)
RStrip(s) ==
    IF s = <<>> THEN s
    ELSE IF s[Len(s)] = " " THEN RStrip(SubSeq(s, 1, Len(s) - 1)) ELSE s

Strip(s) == RStrip(LStrip(s))

EmptyStore == [workspaces |-> <<>>]

Perms(S) == {p \in [1..Cardinality(S) -> S] : \A i, j \in 1..Cardinality(S) : p[i] = p[j] => i = j}

-----------------------------------------------------------------------------
(* The compositor. *)

\* f"{make} {model} {serial}".strip() over the stripped fields
Description(monitor) ==
    Strip(Strip(monitor.make) \o <<" ">> \o Strip(monitor.model) \o <<" ">> \o Strip(monitor.serial))

Cmd(kind, output, arg, phase, idx) ==
    [kind |-> kind, output |-> output, arg |-> arg, phase |-> phase, idx |-> idx]

enable_monitor(name, phase, idx) == Cmd("enable", name, <<>>, phase, idx)
disable_monitor(name, phase, idx) == Cmd("disable", name, <<>>, phase, idx)
set_rotation(name, rotation, phase, idx) == Cmd("transform", name, <<rotation>>, phase, idx)
set_position(name, x, y, phase, idx) == Cmd("position", name, <<x, y>>, phase, idx)

\* what sway does with one successful "swaymsg output <name> ..." command
SwayApplyOne(o, c) ==
    IF o.name # c.output THEN o
    ELSE IF c.kind = "enable" THEN [o EXCEPT !.active = TRUE]
    ELSE IF c.kind = "disable" THEN [o EXCEPT !.active = FALSE]
    ELSE IF c.kind = "transform" THEN [o EXCEPT !.transform = c.arg[1]]
    ELSE [o EXCEPT !.rect = [x |-> c.arg[1], y |-> c.arg[2]]]

SwayApply(outs, c) == [i \in 1..Len(outs) |-> SwayApplyOne(outs[i], c)]

RECURSIVE SwayApplyAll(_, _)
SwayApplyAll(outs, cmds) ==
    IF cmds = <<>> THEN outs ELSE SwayApplyAll(SwayApply(outs, Head(cmds)), Tail(cmds))

\* subprocess.run(..., check=True) for each command of plan in turn.
\* failAt = 0: every command exits 0; failAt = k: the k-th command exits
\* non-zero, which check=True turns into CalledProcessError.
RunCommands(plan, outs, failAt) ==
    LET fails == failAt >= 1 /\ failAt <= Len(plan)
        ran == IF fails THEN SubSeq(plan, 1, failAt) ELSE plan
        done == IF fails THEN SubSeq(plan, 1, failAt - 1) ELSE plan
    IN [issued |-> ran, outputs |-> SwayApplyAll(outs, done), failed |-> fails,
        error |-> IF fails THEN "CalledProcessError" ELSE None]

\* swaymsg -t get_outputs through subprocess.run and json.loads:
\* "ok": stdout is the JSON list of outputs; "invalid_json": stdout does not
\* parse (JSONDecodeError); "cannot_run": the process cannot be started
\* (subprocess.run raises OSError).
QueryOutcomes == {"ok", "invalid_json", "cannot_run"}

-----------------------------------------------------------------------------
(* The workspace file. *)

\* f.valid: json.load parses the file's text.  raised: JSONDecodeError leaves
\* the function; msg: what it prints
load_workspaces_NoExcept(f) ==
    IF ~f.exists THEN [raised |-> FALSE, data |-> EmptyStore, msg |-> {}]
    ELSE IF f.valid THEN [raised |-> FALSE, data |-> f.data, msg |-> {}]
    ELSE [raised |-> TRUE, data |-> EmptyStore, msg |-> {}]

load_workspaces(f) ==
    IF ~f.exists THEN [raised |-> FALSE, data |-> EmptyStore, msg |-> {}]
    ELSE IF f.valid THEN [raised |-> FALSE, data |-> f.data, msg |-> {}]
    ELSE [raised |-> FALSE, data |-> EmptyStore, msg |-> {"Error parsing workspaces.json."}]

save_workspaces(workspaces_data) == [exists |-> TRUE, valid |-> TRUE, data |-> workspaces_data]

-----------------------------------------------------------------------------
(* activate_workspace, after the workspace is selected and the outputs read. *)

RECURSIVE description_to_output(_)
description_to_output(monitors_data) ==
    IF monitors_data = <<>> THEN <<>>
    ELSE LET n == Len(monitors_data)
             monitor == monitors_data[n]
         IN (Description(monitor) :> monitor.name) @@ description_to_output(SubSeq(monitors_data, 1, n - 1))

Resolve_DefaultName(map, description) == IF description \in DOMAIN map THEN map[description] ELSE "LVDS-1"

Resolve(map, description) == IF description \in DOMAIN map THEN map[description] ELSE None

workspace_output_names(monitors, map) ==
    {Resolve(map, monitors[i].description) : i \in 1..Len(monitors)} \ {None}

monitors_to_disable_Reversed(monitors, monitors_data) ==
    workspace_output_names(monitors, description_to_output(monitors_data))
        \ {monitors_data[i].name : i \in 1..Len(monitors_data)}

monitors_to_disable_All(monitors, monitors_data) ==
    {monitors_data[i].name : i \in 1..Len(monitors_data)}

monitors_to_disable(monitors, monitors_data) ==
    {monitors_data[i].name : i \in 1..Len(monitors_data)}
        \ workspace_output_names(monitors, description_to_output(monitors_data))

\* the body of the second loop for the i-th entry of the workspace
ProfileCommands(monitor_config, i, map) ==
    LET state == Get(monitor_config, "state", "enable")
        transform == Get(monitor_config, "transform", None)
        position == Get(monitor_config, "position", [x |-> 0, y |-> 0])
        output_name == Resolve(map, monitor_config.description)
    IN IF output_name = None THEN <<>>
       ELSE (IF state = "enable" THEN <<enable_monitor(output_name, 2, i)>>
             ELSE IF state = "disable" THEN <<disable_monitor(output_name, 2, i)>>
             ELSE <<>>)
            \o (IF transform # None THEN <<set_rotation(output_name, transform, 2, i)>> ELSE <<>>)
            \o <<set_position(output_name, position.x, position.y, 2, i)>>

RECURSIVE ApplyProfiles_Break(_, _, _)
ApplyProfiles_Break(monitors, i, map) ==
    IF i > Len(monitors) \/ Resolve(map, monitors[i].description) = None THEN <<>>
    ELSE ProfileCommands(monitors[i], i, map) \o ApplyProfiles_Break(monitors, i + 1, map)

RECURSIVE ApplyProfiles(_, _, _)
ApplyProfiles(monitors, i, map) ==
    IF i > Len(monitors) THEN <<>>
    ELSE ProfileCommands(monitors[i], i, map) \o ApplyProfiles(monitors, i + 1, map)

NotFound(monitors, map) ==
    {i \in 1..Len(monitors) : Resolve(map, monitors[i].description) = None}

ActivatePlan_ProfilesFirst(monitors, monitors_data, order) ==
    ApplyProfiles(monitors, 1, description_to_output(monitors_data))
        \o [i \in 1..Len(order) |-> disable_monitor(order[i], 1, 0)]

\* the commands of one activation; order is the order in which the loop over
\* the set monitors_to_disable happens to visit it
ActivatePlan(monitors, monitors_data, order) ==
    [i \in 1..Len(order) |-> disable_monitor(order[i], 1, 0)]
        \o ApplyProfiles(monitors, 1, description_to_output(monitors_data))

-----------------------------------------------------------------------------
(* Position text: "x,y". *)

RECURSIVE Split(_, _)
Split(s, sep) ==
    IF \A i \in 1..Len(s) : s[i] # sep THEN <<s>>
    ELSE LET k == CHOOSE i \in 1..Len(s) : s[i] = sep /\ \A j \in 1..(i - 1) : s[j] # sep
         IN <<SubSeq(s, 1, k - 1)>> \o Split(SubSeq(s, k + 1, Len(s)), sep)

DigitValue(c) == IF c = "0" THEN 0 ELSE IF c = "1" THEN 1 ELSE 2

IsInt(s) == s # <<>> /\ \A i \in 1..Len(s) : s[i] \in {"0", "1", "2"}

RECURSIVE ToInt(_)
ToInt(s) == IF s = <<>> THEN 0 ELSE 10 * ToInt(SubSeq(s, 1, Len(s) - 1)) + DigitValue(s[Len(s)])

\* x_str, y_str = text.split(","); int(x_str.strip()); int(y_str.strip()),
\* ok = FALSE where Python raises ValueError
ParsePosition(text) ==
    LET parts == Split(text, ",")
    IN IF Len(parts) = 2 /\ IsInt(Strip(parts[1])) /\ IsInt(Strip(parts[2]))
       THEN [ok |-> TRUE, x |-> ToInt(Strip(parts[1])), y |-> ToInt(Strip(parts[2]))]
       ELSE [ok |-> FALSE, x |-> 0, y |-> 0]

-----------------------------------------------------------------------------
(* What the user and the environment can supply. *)

\* an answer to a text prompt: cancelled (inquirer returns None) or a text
Cancelled == [cancelled |-> TRUE, text |-> <<>>]
Typed(t) == [cancelled |-> FALSE, text |-> t]

NameTexts == {<<>>, <<" ">>, <<"a">>, <<" ", "a">>, <<"a", " ">>, <<"b">>}
NameAnswers == {Cancelled} \cup {Typed(t) : t \in NameTexts}

\* create_new_workspace: the three prompts for one monitor
NewAnswers ==
    { [state |-> None, rotation |-> None, position |-> Cancelled],
      [state |-> "Enable", rotation |-> "90", position |-> Typed(<<"1", ",", "0">>)],
      [state |-> "Enable", rotation |-> None, position |-> Typed(<<"x", ",", "0">>)] }

\* manage_monitors: whether the monitor is ticked, and the three prompts for it
ManageAnswers ==
    { [ticked |-> FALSE, state |-> None, rotation |-> None, position |-> Cancelled],
      [ticked |-> TRUE, state |-> "Enable", rotation |-> "90", position |-> Typed(<<" ", "1", ",", " ", "2">>)],
      [ticked |-> TRUE, state |-> "Disable", rotation |-> "No Change", position |-> Typed(<<"1">>)],
      [ticked |-> TRUE, state |-> "No Change", rotation |-> "No Change", position |-> Cancelled] }

-----------------------------------------------------------------------------
(* The handlers.  Each is one step of the menu loop: it runs to its return, *)
(* or to the exception that ends the program.                               *)

\* what last.loaded holds when the handler does not read the file
NotLoaded == [raised |-> FALSE, data |-> EmptyStore, msg |-> {}]

\* failed: a swaymsg output command exited non-zero;
\* error: the exception that ended the handler, None when it returned
Last(op, loaded, sel, name, q, completed, error) ==
    [op |-> op, file |-> file, loaded |-> loaded, sel |-> sel, name |-> name,
     live |-> outputs, query |-> q, completed |-> completed, failed |-> FALSE, error |-> error]

\* an exception no handler catches unwinds menu() and ends the program
Return(f, outs, iss, m, l) ==
    /\ pc' = IF l.error # None THEN "crashed" ELSE pc
    /\ file' = f
    /\ outputs' = outs
    /\ issued' = iss
    /\ msg' = m \cup l.loaded.msg
    /\ last' = l
    /\ budget' = budget - 1

\* the first workspace of that name, as next(...) finds it
FindWorkspace(workspaces, name) ==
    LET k == CHOOSE i \in 1..Len(workspaces) :
                 workspaces[i].name = name /\ \A j \in 1..(i - 1) : workspaces[j].name # name
    IN workspaces[k]

WorkspaceNames(workspaces) == {workspaces[i].name : i \in 1..Len(workspaces)}

LoadError(loaded) == IF loaded.raised THEN "JSONDecodeError" ELSE None

ActivateWorkspace ==
    /\ pc = "wsmenu"
    /\ budget > 0
    /\ UNCHANGED captured
    /\ LET loaded == load_workspaces(file)
           workspaces == loaded.data.workspaces
       IN IF loaded.raised
          THEN Return(file, outputs, <<>>, {},
                      Last("activate", loaded, <<>>, <<>>, None, FALSE, LoadError(loaded)))
          ELSE IF workspaces = <<>>
          THEN Return(file, outputs, <<>>, {"No workspaces found in workspaces.json."},
                      Last("activate", loaded, <<>>, <<>>, None, FALSE, None))
          ELSE \/ \* the selection prompt is cancelled
                  Return(file, outputs, <<>>, {}, Last("activate", loaded, <<>>, <<>>, None, FALSE, None))
               \/ \E name \in WorkspaceNames(workspaces), q \in QueryOutcomes :
                    LET selected_workspace == FindWorkspace(workspaces, name)
                        monitors == selected_workspace.monitors
                        map == description_to_output(outputs)
                    IN IF q = "cannot_run"
                       THEN Return(file, outputs, <<>>, {},
                                   Last("activate", loaded, <<selected_workspace>>, <<>>, q, FALSE, "OSError"))
                       ELSE IF q = "invalid_json"
                       THEN Return(file, outputs, <<>>, {"Failed to retrieve monitor information."},
                                   Last("activate", loaded, <<selected_workspace>>, <<>>, q, FALSE, None))
                       ELSE IF outputs = <<>>
                       THEN Return(file, outputs, <<>>, {"No monitors found."},
                                   Last("activate", loaded, <<selected_workspace>>, <<>>, q, FALSE, None))
                       ELSE \E order \in Perms(monitors_to_disable(monitors, outputs)), failAt \in 0..MaxFailAt :
                              LET run == RunCommands(ActivatePlan(monitors, outputs, order), outputs, failAt)
                                  reached == IF run.error # None THEN run.issued[Len(run.issued)].idx
                                             ELSE Len(monitors)
                                  notfound == {i \in NotFound(monitors, map) : i <= reached}
                              IN Return(file, run.outputs, run.issued,
                                        IF notfound = {} THEN {} ELSE {"Monitor with description not found."},
                                        [Last("activate", loaded, <<selected_workspace>>, <<>>, q,
                                              run.error = None, run.error) EXCEPT !.failed = run.failed])

RECURSIVE CurrentMonitors_All(_)
CurrentMonitors_All(monitors_data) ==
    IF monitors_data = <<>> THEN <<>>
    ELSE LET monitor == Head(monitors_data)
         IN <<[description |-> Description(monitor), state |-> "enable",
               transform |-> monitor.transform,
               position |-> [x |-> monitor.rect.x, y |-> monitor.rect.y]]>>
            \o CurrentMonitors_All(Tail(monitors_data))

\* the monitors list create_current_as_workspace records
RECURSIVE CurrentMonitors(_)
CurrentMonitors(monitors_data) ==
    IF monitors_data = <<>> THEN <<>>
    ELSE LET monitor == Head(monitors_data)
             state == IF monitor.active THEN "enable" ELSE "disable"
         IN (IF state # "disable"
             THEN <<[description |-> Description(monitor), state |-> state,
                     transform |-> monitor.transform,
                     position |-> [x |-> monitor.rect.x, y |-> monitor.rect.y]]>>
             ELSE <<>>)
            \o CurrentMonitors(Tail(monitors_data))

IsDuplicate_All(workspaces, workspace_name) ==
    \A i \in 1..Len(workspaces) : workspaces[i].name = workspace_name

IsDuplicate(workspaces, workspace_name) ==
    \E i \in 1..Len(workspaces) : workspaces[i].name = workspace_name

AddWorkspace(workspaces_data, workspace_name, workspace_monitors) ==
    [workspaces_data EXCEPT !.workspaces =
        Append(@, [name |-> workspace_name, monitors |-> workspace_monitors])]

CreateCurrentAsWorkspace ==
    /\ pc = "wsmenu"
    /\ budget > 0
    /\ LET loaded == load_workspaces(file)
       IN \E answer \in NameAnswers, q \in QueryOutcomes :
            LET workspace_name == Strip(answer.text)
                early(error) == Last("create_current", loaded, <<>>, answer.text, None, FALSE, error)
                l(error) == Last("create_current", loaded, <<>>, answer.text, q, FALSE, error)
            IN IF loaded.raised
               THEN UNCHANGED captured /\ Return(file, outputs, <<>>, {}, early(LoadError(loaded)))
               ELSE IF answer.cancelled \/ Strip(answer.text) = <<>>
               THEN UNCHANGED captured
                    /\ Return(file, outputs, <<>>, {"Workspace name cannot be empty."}, early(None))
               ELSE IF IsDuplicate(loaded.data.workspaces, workspace_name)
               THEN UNCHANGED captured
                    /\ Return(file, outputs, <<>>, {"A workspace with that name already exists."}, early(None))
               ELSE IF q = "cannot_run"
               THEN UNCHANGED captured /\ Return(file, outputs, <<>>, {}, l("OSError"))
               ELSE IF q = "invalid_json"
               THEN UNCHANGED captured
                    /\ Return(file, outputs, <<>>, {"Failed to retrieve monitor information."}, l(None))
               ELSE IF outputs = <<>>
               THEN UNCHANGED captured /\ Return(file, outputs, <<>>, {"No monitors found."}, l(None))
               ELSE /\ captured' = [name |-> workspace_name, live |-> outputs]
                    /\ Return(save_workspaces(AddWorkspace(loaded.data, workspace_name, CurrentMonitors(outputs))),
                              outputs, <<>>, {"Workspace created successfully from current settings."},
                              [l(None) EXCEPT !.completed = TRUE])

\* the monitors list create_new_workspace builds from the answers, one per monitor
RECURSIVE NewMonitors(_, _, _)
NewMonitors(monitors_data, answers, i) ==
    IF i > Len(monitors_data) THEN <<>>
    ELSE LET monitor == monitors_data[i]
             a == answers[i]
             state_choice == IF a.state = None THEN "disable"
                             ELSE IF a.state = "Enable" THEN "enable" ELSE "disable"
             rotation_choice == IF a.rotation = None THEN "normal" ELSE a.rotation
             parsed == ParsePosition(Strip(a.position.text))
             xy == IF a.position.cancelled \/ Strip(a.position.text) = <<>> \/ ~parsed.ok
                   THEN [x |-> 0, y |-> 0]
                   ELSE [x |-> parsed.x, y |-> parsed.y]
         IN (IF state_choice = "disable" THEN <<>>
             ELSE <<[description |-> Description(monitor), state |-> state_choice,
                     transform |-> rotation_choice, position |-> xy]>>)
            \o NewMonitors(monitors_data, answers, i + 1)

CreateNewWorkspace ==
    /\ pc = "wsmenu"
    /\ budget > 0
    /\ UNCHANGED captured
    /\ LET loaded == load_workspaces(file)
       IN \E answer \in NameAnswers, q \in QueryOutcomes :
            LET workspace_name == Strip(answer.text)
                early(error) == Last("create_new", loaded, <<>>, answer.text, None, FALSE, error)
                l(error) == Last("create_new", loaded, <<>>, answer.text, q, FALSE, error)
            IN IF loaded.raised
               THEN Return(file, outputs, <<>>, {}, early(LoadError(loaded)))
               ELSE IF answer.cancelled \/ Strip(answer.text) = <<>>
               THEN Return(file, outputs, <<>>, {"Workspace name cannot be empty."}, early(None))
               ELSE IF IsDuplicate(loaded.data.workspaces, workspace_name)
               THEN Return(file, outputs, <<>>, {"A workspace with that name already exists."}, early(None))
               ELSE IF q = "cannot_run"
               THEN Return(file, outputs, <<>>, {}, l("OSError"))
               ELSE IF q = "invalid_json"
               THEN Return(file, outputs, <<>>, {"Failed to retrieve monitor information."}, l(None))
               ELSE IF outputs = <<>>
               THEN Return(file, outputs, <<>>, {"No monitors found."}, l(None))
               ELSE \E answers \in [1..Len(outputs) -> NewAnswers] :
                      Return(save_workspaces(AddWorkspace(loaded.data, workspace_name,
                                                          NewMonitors(outputs, answers, 1))),
                             outputs, <<>>, {"Workspace created successfully."},
                             [l(None) EXCEPT !.completed = TRUE])

\* the loop of delete_workspace over the ticked names
RemoveNamed(workspaces, names) == SelectSeq(workspaces, LAMBDA ws : ws.name \notin names)

DeleteWorkspace ==
    /\ pc = "wsmenu"
    /\ budget > 0
    /\ UNCHANGED captured
    /\ LET loaded == load_workspaces(file)
           workspaces == loaded.data.workspaces
           l(error) == Last("delete", loaded, <<>>, <<>>, None, FALSE, error)
       IN IF loaded.raised
          THEN Return(file, outputs, <<>>, {}, l(LoadError(loaded)))
          ELSE IF workspaces = <<>>
          THEN Return(file, outputs, <<>>, {"No workspaces found in workspaces.json."}, l(None))
          ELSE \E ticked \in SUBSET WorkspaceNames(workspaces) :
                 IF ticked = {}
                 THEN Return(file, outputs, <<>>, {"No workspaces selected for deletion."}, l(None))
                 ELSE Return(save_workspaces([loaded.data EXCEPT !.workspaces = RemoveNamed(@, ticked)]),
                             outputs, <<>>, {"Workspace deleted."}, [l(None) EXCEPT !.completed = TRUE])

\* the commands manage_monitors runs for one ticked monitor
ManageCommands(monitor, a, i) ==
    LET text == Strip(a.position.text)
        parsed == ParsePosition(text)
        setpos == ~a.position.cancelled /\ text # <<>> /\ parsed.ok
    IN IF ~a.ticked \/ a.state = None \/ a.rotation = None THEN <<>>
       ELSE (IF a.state = "Enable" THEN <<enable_monitor(monitor.name, 0, i)>>
             ELSE IF a.state = "Disable" THEN <<disable_monitor(monitor.name, 0, i)>>
             ELSE <<>>)
            \o (IF a.rotation # "No Change" THEN <<set_rotation(monitor.name, a.rotation, 0, i)>> ELSE <<>>)
            \o (IF setpos THEN <<set_position(monitor.name, parsed.x, parsed.y, 0, i)>> ELSE <<>>)

RECURSIVE ManagePlan(_, _, _)
ManagePlan(monitors_data, answers, i) ==
    IF i > Len(monitors_data) THEN <<>>
    ELSE ManageCommands(monitors_data[i], answers[i], i) \o ManagePlan(monitors_data, answers, i + 1)

ManageMonitors ==
    /\ pc = "menu"
    /\ budget > 0
    /\ UNCHANGED captured
    /\ \E q \in QueryOutcomes :
         LET l(error) == Last("manage", NotLoaded, <<>>, <<>>, q, FALSE, error)
         IN IF q = "cannot_run"
            THEN Return(file, outputs, <<>>, {}, l("OSError"))
            ELSE IF q = "invalid_json"
            THEN Return(file, outputs, <<>>, {"Failed to retrieve monitor information."}, l(None))
            ELSE IF outputs = <<>>
            THEN Return(file, outputs, <<>>, {"No monitors found."}, l(None))
            ELSE \E answers \in [1..Len(outputs) -> ManageAnswers], failAt \in 0..MaxFailAt :
                   IF \A i \in 1..Len(outputs) : ~answers[i].ticked
                   THEN Return(file, outputs, <<>>, {"No monitors selected."}, l(None))
                   ELSE LET run == RunCommands(ManagePlan(outputs, answers, 1), outputs, failAt)
                        IN Return(file, run.outputs, run.issued, {},
                                  [l(run.error) EXCEPT !.completed = (run.error = None), !.failed = run.failed])

\* menu(): "Manage Workspaces"
EnterWorkspaces ==
    /\ pc = "menu"
    /\ pc' = "wsmenu"
    /\ UNCHANGED <<file, outputs, budget, issued, msg, last, captured>>

\* manage_workspaces_menu(): "Back to Main Menu"
BackToMainMenu ==
    /\ pc = "wsmenu"
    /\ pc' = "menu"
    /\ UNCHANGED <<file, outputs, budget, issued, msg, last, captured>>

\* menu(): "Exit"
Exit ==
    /\ pc = "menu"
    /\ pc' = "exited"
    /\ UNCHANGED <<file, outputs, budget, issued, msg, last, captured>>

-----------------------------------------------------------------------------
(* Initial states. *)

\* make, model and serial as sway reports them; two monitors of one kind
\* have the same three
Hardware ==
    { [make |-> <<"D">>, model |-> <<"U">>, serial |-> <<>>],
      [make |-> <<"L", " ">>, model |-> <<>>, serial |-> <<>>] }

OutputNames == <<"HDMI-1", "DP-1", "eDP-1", "DP-2">>

LiveOutputs ==
    UNION { { [i \in 1..n |-> [name |-> OutputNames[i], make |-> hw[i].make, model |-> hw[i].model,
                               serial |-> hw[i].serial, active |-> act[i],
                               transform |-> "normal", rect |-> [x |-> 0, y |-> 0]]] :
              hw \in [1..n -> Hardware], act \in [1..n -> BOOLEAN] } : n \in 0..MaxOutputs }

\* entries a stored workspace can hold: a full entry and a disabling entry
\* for each description that Hardware yields, an entry that leaves state and
\* transform to their defaults, and an entry for a monitor that is not plugged in
StoredProfiles ==
    UNION { { [description |-> d, state |-> "enable", transform |-> "90", position |-> [x |-> 1, y |-> 0]],
              [description |-> d, state |-> "disable"] } : d \in {<<"D", " ", "U">>, <<"L">>} }
        \cup { [description |-> <<"D", " ", "U">>, position |-> [x |-> 0, y |-> 2]],
               [description |-> <<"X">>, state |-> "enable", transform |-> "90"] }

StoredMonitors == UNION { [1..n -> StoredProfiles] : n \in 0..MaxProfiles }

\* the two outputs of a laptop with one external monitor
ExampleOutputs ==
    << [name |-> "HDMI-1", make |-> <<"D">>, model |-> <<"U">>, serial |-> <<>>,
        active |-> TRUE, transform |-> "normal", rect |-> [x |-> 0, y |-> 0]],
       [name |-> "DP-1", make |-> <<"L", " ">>, model |-> <<>>, serial |-> <<>>,
        active |-> FALSE, transform |-> "normal", rect |-> [x |-> 0, y |-> 0]] >>

NoLast == Last("none", NotLoaded, <<>>, <<>>, None, FALSE, None)

InitCommon ==
    /\ issued = <<>>
    /\ msg = {}
    /\ captured = [name |-> <<>>, live |-> <<>>]

\* the program at its main menu
Init ==
    /\ pc = "menu"
    /\ budget = MaxOps
    /\ outputs \in {<<>>, ExampleOutputs}
    /\ file \in { [exists |-> FALSE, valid |-> FALSE, data |-> EmptyStore],
                  [exists |-> TRUE, valid |-> FALSE, data |-> EmptyStore],
                  save_workspaces(EmptyStore),
                  save_workspaces([workspaces |-> <<[name |-> <<"a">>,
                       monitors |-> <<[description |-> <<"D", " ", "U">>, state |-> "enable",
                                       transform |-> "90", position |-> [x |-> 0, y |-> 0]]>>]>>]) }
    /\ InitCommon
    /\ last = [NoLast EXCEPT !.file = file, !.live = outputs]

Next ==
    \/ ManageMonitors
    \/ EnterWorkspaces
    \/ BackToMainMenu
    \/ Exit
    \/ ActivateWorkspace
    \/ CreateNewWorkspace
    \/ CreateCurrentAsWorkspace
    \/ DeleteWorkspace

Spec == Init /\ [][Next]_vars

\* the program in the workspace menu with one stored workspace to activate,
\* or with no file and a capture and an activation to come
InitReconcile ==
    /\ pc = "wsmenu"
    /\ outputs \in LiveOutputs
    /\ \/ /\ budget = 1
          /\ file \in {save_workspaces([workspaces |-> <<[name |-> <<"a">>, monitors |-> m]>>]) :
                         m \in StoredMonitors}
       \/ /\ budget = 2
          /\ file = [exists |-> FALSE, valid |-> FALSE, data |-> EmptyStore]
    /\ InitCommon
    /\ last = [NoLast EXCEPT !.file = file, !.live = outputs]

NextReconcile ==
    \/ ActivateWorkspace
    \/ CreateCurrentAsWorkspace

SpecReconcile == InitReconcile /\ [][NextReconcile]_vars

-----------------------------------------------------------------------------
(* Vocabulary of the properties, stated over what the last handler was     *)
(* given (last) and what it did (issued, msg, file, outputs, pc).          *)

\* activate_workspace got as far as reconciling workspace W against live list L
Reconciled == last.op = "activate" /\ last.sel # <<>> /\ last.query = "ok" /\ last.live # <<>>
W == last.sel[1].monitors
L == last.live

LiveNames == {L[j].name : j \in 1..Len(L)}

\* the output a description stands for: the last output of L carrying it
Carriers(d) == {j \in 1..Len(L) : Description(L[j]) = d}
Last_(S) == CHOOSE k \in S : \A j \in S : j <= k
ResolvedName(d) == IF Carriers(d) = {} THEN None ELSE L[Last_(Carriers(d))].name

Matched == {i \in 1..Len(W) : ResolvedName(W[i].description) # None}
Unmatched == (1..Len(W)) \ Matched
ResolvedNames == {ResolvedName(W[i].description) : i \in Matched}

EffState(p) == IF "state" \in DOMAIN p THEN p.state ELSE "enable"
EffPosition(p) == IF "position" \in DOMAIN p THEN <<p.position.x, p.position.y>> ELSE <<0, 0>>
HasTransform(p) == "transform" \in DOMAIN p

Phase(n) == {k \in 1..Len(issued) : issued[k].phase = n}
OfProfile(i) == {k \in Phase(2) : issued[k].idx = i}
Rank(c) == IF c.kind \in {"enable", "disable"} THEN 1 ELSE IF c.kind = "transform" THEN 2 ELSE 3

\* the actions the spec's step 5 lists for entry p, for output name
Expected(p, name) ==
    <<[kind |-> EffState(p), output |-> name, arg |-> <<>>]>>
    \o (IF HasTransform(p) THEN <<[kind |-> "transform", output |-> name, arg |-> <<p.transform>>]>> ELSE <<>>)
    \o <<[kind |-> "position", output |-> name, arg |-> EffPosition(p)]>>

Bare(c) == [kind |-> c.kind, output |-> c.output, arg |-> c.arg]
IssuedFor(i) == LET sub == SelectSeq(issued, LAMBDA c : c.phase = 2 /\ c.idx = i)
                IN [k \in 1..Len(sub) |-> Bare(sub[k])]

-----------------------------------------------------------------------------
\* C1: every action activate_workspace issues (enable, disable, transform,
\* position) names an output that is in the live output list it read.
C1_ActionsNameLiveOutputs ==
    Reconciled => \A k \in 1..Len(issued) : issued[k].output \in LiveNames

C1_Witness ==
    /\ Reconciled
    /\ last.completed
    /\ Unmatched # {}
    /\ Phase(1) # {}
    /\ {issued[k].kind : k \in Phase(2)} = {"enable", "transform", "position"}

\* C2: the first-pass disables all come before any action of a profile; the
\* profile actions follow the stored order of the workspace; within a profile
\* the enable/disable comes first, then the transform, then the position; a
\* profile that ran to its end has issued its enable or disable, a transform
\* exactly when it stores one, and its position.
C2_TwoPhasesInStoredOrder ==
    Reconciled =>
        /\ \A j, k \in 1..Len(issued) :
             j < k => /\ issued[j].phase <= issued[k].phase
                      /\ issued[j].phase = 2 =>
                           /\ issued[j].idx <= issued[k].idx
                           /\ issued[j].idx = issued[k].idx => Rank(issued[j]) < Rank(issued[k])
        /\ \A k \in Phase(1) : issued[k].kind = "disable" /\ issued[k].output \notin ResolvedNames
        /\ \A k \in Phase(2) :
             /\ issued[k].idx \in Matched
             /\ issued[k].output = ResolvedName(W[issued[k].idx].description)
        /\ last.completed =>
             \A i \in Matched :
                {issued[k].kind : k \in OfProfile(i)}
                    = {EffState(W[i]), "position"} \cup (IF HasTransform(W[i]) THEN {"transform"} ELSE {})

C2_Witness ==
    /\ Reconciled
    /\ last.completed
    /\ Phase(1) # {}
    /\ Cardinality(Matched) >= 2
    /\ \E i, j \in Matched : HasTransform(W[i]) /\ ~HasTransform(W[j])

\* C3: after an activation in which every command succeeded, every live output
\* that no profile resolves to is disabled, and every output that a profile
\* resolves to is enabled or disabled as the last such profile says, is at that
\* profile's position, and has the transform of the last such profile that
\* stores one (its transform is untouched when none does).
C3_ActivationRealizesWorkspace ==
    (Reconciled /\ last.completed) =>
        \A j \in 1..Len(L) :
            LET on == {i \in Matched : ResolvedName(W[i].description) = L[j].name}
                tr == {i \in on : HasTransform(W[i])}
            IN /\ outputs[j].name = L[j].name
               /\ on = {} => ~outputs[j].active /\ outputs[j].transform = L[j].transform
                             /\ outputs[j].rect = L[j].rect
               /\ on # {} =>
                    /\ outputs[j].active = (EffState(W[Last_(on)]) = "enable")
                    /\ <<outputs[j].rect.x, outputs[j].rect.y>> = EffPosition(W[Last_(on)])
                    /\ HasTransform(W[Last_(on)]) => outputs[j].transform = W[Last_(on)].transform
                    /\ outputs[j].transform = IF tr = {} THEN L[j].transform ELSE W[Last_(tr)].transform

C3_Witness ==
    /\ Reconciled
    /\ last.completed
    /\ \E j \in 1..Len(L) : L[j].name \notin ResolvedNames /\ L[j].active /\ ~outputs[j].active
    /\ \E j \in 1..Len(L) :
         /\ Cardinality({i \in Matched : ResolvedName(W[i].description) = L[j].name}) = 2
         /\ ~L[j].active /\ outputs[j].active /\ outputs[j].transform = "90"

RoundTrip ==
    /\ Reconciled
    /\ last.completed
    /\ captured.name # <<>>
    /\ last.sel[1].name = captured.name
    /\ captured.live = L

\* every active output is the last output of L that carries its description
ActiveAreLastCarriers ==
    \A j \in 1..Len(L) : L[j].active => j = Last_(Carriers(Description(L[j])))

\* C5 as claimed: for every non-empty live list, capturing it and activating
\* the captured workspace against the same list leaves every output that was
\* active enabled and every output that was inactive disabled.
C5_RoundTripKeepsEnabledSet ==
    RoundTrip => \A j \in 1..Len(L) : outputs[j].active = L[j].active

\* C5 amended: the same, for the live lists in which every active output is
\* the last output carrying its description (so, in particular, whenever the
\* descriptions are pairwise distinct).
C5_RoundTripKeepsEnabledSetDistinct ==
    (RoundTrip /\ ActiveAreLastCarriers) => \A j \in 1..Len(L) : outputs[j].active = L[j].active

C5_Witness ==
    /\ RoundTrip
    /\ ActiveAreLastCarriers
    /\ Len(L) >= 2
    /\ \E j, k \in 1..Len(L) : L[j].active /\ ~L[k].active /\ outputs[j].active /\ ~outputs[k].active
    /\ Phase(1) # {} /\ Phase(2) # {}

\* C10: the first pass disables exactly the live outputs that no profile
\* resolves to, each once, and no output named in the first pass is named by
\* any action of the profile pass.
C10_PassesActOnDisjointOutputs ==
    Reconciled =>
        /\ {issued[k].output : k \in Phase(1)} \subseteq LiveNames \ ResolvedNames
        /\ (last.completed \/ Phase(2) # {}) =>
              {issued[k].output : k \in Phase(1)} = LiveNames \ ResolvedNames
        /\ \A j, k \in Phase(1) : issued[j].output = issued[k].output => j = k
        /\ \A k \in Phase(1) : issued[k].kind = "disable"
        /\ {issued[k].output : k \in Phase(1)} \cap {issued[k].output : k \in Phase(2)} = {}

C10_Witness ==
    /\ Reconciled
    /\ last.completed
    /\ Phase(1) # {}
    /\ \E k \in Phase(2) : issued[k].kind = "enable"
    /\ \E k \in Phase(2) : issued[k].kind = "disable"

-----------------------------------------------------------------------------
Creates == {"create_new", "create_current"}
Loaders == {"activate", "create_new", "create_current", "delete"}

UniqueNames(workspaces) ==
    \A i, j \in 1..Len(workspaces) : workspaces[i].name = workspaces[j].name => i = j

\* C6 as claimed: when the output query cannot run or its stdout is not valid
\* JSON, the handler prints the failure message, issues no command, leaves the
\* workspace file as it was and returns to its menu.
C6_QueryFailureAborts ==
    last.query \in {"invalid_json", "cannot_run"} =>
        /\ issued = <<>>
        /\ file = last.file
        /\ "Failed to retrieve monitor information." \in msg
        /\ last.error = None
        /\ pc # "crashed"

\* C7: no two workspaces of the file have the same name, and a create whose
\* stripped name is the name of a stored workspace reports it and stops with
\* the file as it was.
C7_WorkspaceNamesUnique ==
    /\ file.valid => UniqueNames(file.data.workspaces)
    /\ (last.op \in Creates /\ Strip(last.name) \in WorkspaceNames(last.loaded.data.workspaces)) =>
          /\ file = last.file
          /\ ~last.completed
          /\ "A workspace with that name already exists." \in msg
          /\ last.error = None
          /\ pc # "crashed"

C7_Witness ==
    /\ last.op \in Creates
    /\ last.name = <<" ", "a">>
    /\ Len(file.data.workspaces) = 2
    /\ WorkspaceNames(file.data.workspaces) = {<<"a">>, <<"b">>}
    /\ "A workspace with that name already exists." \in msg

C9_CommandFailureIsNotFatal ==
    last.failed => (last.error = None /\ pc # "crashed")

====
